---- MODULE Spec2Model ----
(***************************************************************************)
(* A model of mun-relay (src/src/main.rs, src/src/types.rs): the `forward` *)
(* relay workflow and the `join` role-assignment handler of a Discord bot. *)
(*                                                                         *)
(* Every `.await` on a platform call is one step of a handler.  The chat   *)
(* platform is the environment: it holds the member's role set, carries    *)
(* the gateway events (reactions, messages) to the collectors the handlers *)
(* register, and may fail any call.  Time is abstract: a timeout is the    *)
(* step at which a bounded wait ends without an event.                     *)
(***************************************************************************)
EXTENDS Integers, Sequences, FiniteSets, TLC

(***************************************************************************)
(* Bounds of the model.                                                    *)
(***************************************************************************)
MaxUserReactions == 2
MaxUserMessages == 2

\* The invocations of each command the module has room for; a specification
\* chooses in its initial predicate which of them are issued.
MaxWorkflows == 2
MaxJoins == 2
Workflows == 1 .. MaxWorkflows
Joins == 1 .. MaxJoins

(***************************************************************************)
(* src/src/main.rs:25-28.  The emoji are named, not drawn.  The duration   *)
(* of REACTION_TIMEOUT is not modelled (see VoteTimeout, RepliesTimeout).  *)
(***************************************************************************)
POSITIVE_REACTION == "white_check_mark"
NEGATIVE_REACTION == "x"
SENT_REACTION == "incoming_envelope"
OtherReaction == "thumbsup"
Emoji == {POSITIVE_REACTION, NEGATIVE_REACTION, OtherReaction}

(***************************************************************************)
(* The configuration file (types.rs): every id is a decimal string, parsed *)
(* on each access.  A decimal string is a sequence of digits here; the ids *)
(* of the model are far below 2^64, where str::parse would fail.           *)
(***************************************************************************)
RECURSIVE ParseU64(_)
ParseU64(s) ==
    IF s = <<>> THEN 0
    ELSE 10 * ParseU64(SubSeq(s, 1, Len(s) - 1)) + s[Len(s)]

\* Text is a sequence of one-character strings.
Legal == [name |-> <<"L", "e", "g", "a", "l">>,
          role_id |-> <<2, 1>>, channel_id |-> <<3, 1>>]
Finance == [name |-> <<"f", "i", "n", "a", "n", "c", "e">>,
            role_id |-> <<2, 2>>, channel_id |-> <<3, 2>>]

\* The configurations the specifications range over: the committee list in
\* both orders, a single committee, and none.
ConfigFiles ==
    { [guild_id |-> <<9, 0>>, delegate_role_id |-> <<1, 0>>,
       staff_role_id |-> <<1, 1>>, chair_role_id |-> <<1, 2>>,
       committees |-> cs] :
      cs \in { <<Legal, Finance>>, <<Finance, Legal>>, <<Finance>>, <<>> } }

guild_id(cfg) == ParseU64(cfg.guild_id)
delegate_role_id(cfg) == ParseU64(cfg.delegate_role_id)
staff_role_id(cfg) == ParseU64(cfg.staff_role_id)
committees(cfg) == cfg.committees
role_id(c) == ParseU64(c.role_id)
channel_id(c) == ParseU64(c.channel_id)
name(c) == c.name

(***************************************************************************)
(* The platform's identifiers that the handlers meet.                      *)
(***************************************************************************)
BotId == 1
AuthorId == 50
RecipientId == 77
VoterId == 70
OtherMessageId == 999
RoleIds == {10, 21, 22}
CommandChannel(w) == 40 + w
CommandMessage(w) == 400 + w
CommitteeMessage(w) == 100 + w
OutcomeMessage(w) == 300 + w
UserMessage(k) == 200 + k
DmChannel(u) == 600 + u
JoinMessage(j) == 500 + j
OtherGuildId == 91

(***************************************************************************)
(* Command text is a sequence of tokens.  Args::single::<UserId> parses    *)
(* the current token as a user mention or a bare id and advances only on   *)
(* success; Args::rest is what is left.  (main.rs:101-104)                 *)
(***************************************************************************)
UserIdFromStr(tok) ==
    CASE tok = "<@77>" -> RecipientId
      [] tok = "77" -> RecipientId
      [] OTHER -> 0

ArgsSingleUserId(a) == IF a = <<>> THEN 0 ELSE UserIdFromStr(a[1])
ArgsRest(a) == IF ArgsSingleUserId(a) # 0 THEN Tail(a) ELSE a

\* serenity's content_safe with the default options: mentions of everyone,
\* here and of users are rewritten so that they ping nobody.
ContentSafeToken(tok) ==
    CASE tok = "@everyone" -> "@\\u200beveryone"
      [] tok = "@here" -> "@\\u200bhere"
      [] tok = "<@77>" -> "@recipient#0077"
      [] OTHER -> tok

\* A slip: the text is passed on as typed.
content_safe_Raw(s) == s

content_safe(s) == [i \in DOMAIN s |-> ContentSafeToken(s[i])]

CommandTexts ==
    { <<"<@77>", "Hello", "@everyone">>, <<"Just", "a", "note">>, <<"Hi", "<@77>">> }

(***************************************************************************)
(* State.                                                                  *)
(***************************************************************************)
VARIABLES
    config,            \* Arc<Config>, immutable after load
    roles,             \* platform: the role set of the member who runs the commands
    resolvable,        \* platform: whether get_member finds that member
    gateway,           \* platform: events emitted and not yet handed to the collectors
    nreact, nmsg,      \* how many reactions / messages the users have added so far
    \* one `forward` invocation w:
    pc,                \* its position
    args,              \* its command text
    delegate_member,   \* result of get_member
    committee,         \* index into config.committees of the resolved committee, 0 if none
    recipient_id,      \* Option<UserId>, 0 is None
    cleaned_content,
    committee_msg,     \* id of the message posted to the committee channel, 0 before
    reaction_rx,       \* reaction collector: the event it has collected
    vote,              \* what await_reaction returned: "pending", "timeout" or an emoji
    approved,
    replies_rx,        \* reply collector: buffered matching messages
    reply_msg,
    log,               \* the platform calls the invocation issued, in order
    result,            \* "running", "Ok" or "Err" (CommandResult)
    \* history, read by the properties only:
    first_cast,        \* the first reaction a user added to the committee message, and when
    arrived,           \* the messages handed to the reply collector, in order
    \* one `join` invocation j:
    jpc, query, msg_guild_id, jcommittee, member, member_role_ids,
    other_committee_roles, roles_to_add, jlog, jresult

platformVars == <<config, roles, resolvable, gateway, nreact, nmsg>>
forwardVars == <<pc, args, delegate_member, committee, recipient_id, cleaned_content,
                 committee_msg, reaction_rx, vote, approved, replies_rx, reply_msg,
                 log, result, first_cast, arrived>>
joinVars == <<jpc, query, msg_guild_id, jcommittee, member, member_role_ids,
              other_committee_roles, roles_to_add, jlog, jresult>>
vars == <<platformVars, forwardVars, joinVars>>

\* A platform call as the log records it.  Unused fields keep these defaults.
\*   src: for a call of the relay loop, the id of the reply being handled.
Call == [op |-> "", ok |-> TRUE, chan |-> 0, msg |-> 0, mentions |-> <<>>,
         text |-> "", name |-> <<>>, quote |-> <<>>, emoji |-> "", src |-> 0]

\* A gateway event.
Event == [type |-> "", id |-> 0, channel_id |-> 0, ref |-> 0, author |-> 0,
          emoji |-> "", content |-> <<>>]

NoMessage == [id |-> 0, author |-> 0, content |-> <<>>]

is_external(w) == recipient_id[w] # 0
TheCommittee(w) == committees(config)[committee[w]]

(***************************************************************************)
(* `forward` (main.rs:49-282).                                             *)
(***************************************************************************)

\* A slip: the result of the call is dropped and the handler goes on.
Issue_Continue(w, call, ok, next) ==
    /\ log' = [log EXCEPT ![w] = Append(@, [call EXCEPT !.ok = ok])]
    /\ pc' = [pc EXCEPT ![w] = next]
    /\ result' = [result EXCEPT ![w] = IF next = "returned" THEN "Ok" ELSE @]

\* A platform call followed by `.await?`: it is logged; when it fails the
\* handler returns the error at once, otherwise it goes on to `next`.
Issue(w, call, ok, next) ==
    /\ log' = [log EXCEPT ![w] = Append(@, [call EXCEPT !.ok = ok])]
    /\ pc' = [pc EXCEPT ![w] = IF ok THEN next ELSE "returned"]
    /\ result' = [result EXCEPT ![w] =
                    IF ~ok THEN "Err" ELSE IF next = "returned" THEN "Ok" ELSE @]

\* main.rs:56-68: get_member of the author in the configured guild.
GetMember(w) ==
    /\ pc[w] = "get_member"
    /\ delegate_member' = [delegate_member EXCEPT ![w] =
                             IF resolvable THEN [ok |-> TRUE, roles |-> roles]
                             ELSE [ok |-> FALSE, roles |-> {}]]
    /\ pc' = [pc EXCEPT ![w] = "authorize"]
    /\ UNCHANGED <<platformVars, joinVars, args, committee, recipient_id,
                   cleaned_content, committee_msg, reaction_rx, vote, approved,
                   replies_rx, reply_msg, log, result, first_cast, arrived>>

\* A slip: the last match instead of the first.
FindCommittee_Last(cfg, rs) ==
    LET hits == {i \in DOMAIN committees(cfg) : role_id(committees(cfg)[i]) \in rs}
    IN IF hits = {} THEN 0 ELSE CHOOSE i \in hits : \A k \in hits : i >= k

\* main.rs:81-84: committees().iter().find(..): the index of the first
\* committee, in configured order, whose role the member holds; 0 for None.
FindCommittee(cfg, rs) ==
    LET hits == {i \in DOMAIN committees(cfg) : role_id(committees(cfg)[i]) \in rs}
    IN IF hits = {} THEN 0 ELSE CHOOSE i \in hits : \A k \in hits : i <= k

\* A slip: the committee is looked up before the delegate role is checked.
AuthorizationError_CommitteeFirst(cfg, m) ==
    IF ~m.ok THEN "Umm... have I made your acquaintance?"
    ELSE IF FindCommittee(cfg, m.roles) = 0
         THEN "Sorry, but I'm not sure which committee you're on."
    ELSE IF delegate_role_id(cfg) \notin m.roles
         THEN "This command is only available to delegates."
    ELSE ""

\* main.rs:56-93: the error of the first failing check, "" when all pass.
AuthorizationError(cfg, m) ==
    IF ~m.ok THEN "Umm... have I made your acquaintance?"
    ELSE IF delegate_role_id(cfg) \notin m.roles
         THEN "This command is only available to delegates."
    ELSE IF FindCommittee(cfg, m.roles) = 0
         THEN "Sorry, but I'm not sure which committee you're on."
    ELSE ""

\* main.rs:62-93: on a failed check, say the error in the requester's channel
\* and return Ok(()); otherwise the committee is resolved.
Authorize(w) ==
    /\ pc[w] = "authorize"
    /\ LET err == AuthorizationError(config, delegate_member[w]) IN
       IF err # ""
       THEN /\ \E ok \in BOOLEAN :
                 Issue(w, [Call EXCEPT !.op = "say", !.chan = CommandChannel(w),
                                       !.text = err], ok, "returned")
            /\ UNCHANGED committee
       ELSE /\ committee' = [committee EXCEPT ![w] =
                               FindCommittee(config, delegate_member[w].roles)]
            /\ pc' = [pc EXCEPT ![w] = "start_typing"]
            /\ UNCHANGED <<log, result>>
    /\ UNCHANGED <<platformVars, joinVars, args, delegate_member, recipient_id,
                   cleaned_content, committee_msg, reaction_rx, vote, approved,
                   replies_rx, reply_msg, first_cast, arrived>>

\* main.rs:101-106: parse the recipient, sanitize the rest, start typing.
StartTyping(w) ==
    /\ pc[w] = "start_typing"
    /\ recipient_id' = [recipient_id EXCEPT ![w] = ArgsSingleUserId(args[w])]
    /\ cleaned_content' = [cleaned_content EXCEPT ![w] = content_safe(ArgsRest(args[w]))]
    /\ \E ok \in BOOLEAN :
          Issue(w, [Call EXCEPT !.op = "start_typing", !.chan = CommandChannel(w)],
                ok, "committee_say")
    /\ UNCHANGED <<platformVars, joinVars, args, delegate_member, committee,
                   committee_msg, reaction_rx, vote, approved, replies_rx,
                   reply_msg, first_cast, arrived>>

\* main.rs:108-136: the post to the committee channel.
CommitteePost(w) ==
    [Call EXCEPT !.op = "say",
                 !.chan = channel_id(TheCommittee(w)),
                 !.mentions = IF is_external(w) THEN <<AuthorId, recipient_id[w]>>
                              ELSE <<AuthorId>>,
                 !.text = IF is_external(w)
                          THEN "Received request to forward message; use the reactions; reply after voting"
                          ELSE "Received request; reply to this message",
                 !.quote = cleaned_content[w]]

\* A slip: the affordances are attached whether or not there is a recipient.
AfterCommitteeSay_Always(external) == "react_positive"

\* main.rs:138: only an external request gets the two affordances.
AfterCommitteeSay(external) == IF external THEN "react_positive" ELSE "confirm"

CommitteeSay(w) ==
    /\ pc[w] = "committee_say"
    /\ \E ok \in BOOLEAN :
          /\ Issue(w, CommitteePost(w), ok, AfterCommitteeSay(is_external(w)))
          /\ committee_msg' = [committee_msg EXCEPT ![w] =
                                 IF ok THEN CommitteeMessage(w) ELSE @]
    /\ UNCHANGED <<platformVars, joinVars, args, delegate_member, committee,
                   recipient_id, cleaned_content, reaction_rx, vote, approved,
                   replies_rx, reply_msg, first_cast, arrived>>

\* The event the platform emits for a reaction added to a message.
ReactionAdd(m, ch, user, e) ==
    [Event EXCEPT !.type = "reaction_add", !.id = m, !.channel_id = ch,
                  !.author = user, !.emoji = e]

\* main.rs:138-141: the two affordances.  The platform emits a reaction
\* event for each, like for any user's reaction.
React(w, at, e, next) ==
    /\ pc[w] = at
    /\ \E ok \in BOOLEAN :
          /\ Issue(w, [Call EXCEPT !.op = "react", !.msg = committee_msg[w],
                                   !.chan = channel_id(TheCommittee(w)),
                                   !.emoji = e], ok, next)
          /\ gateway' = IF ok
                        THEN Append(gateway,
                                    ReactionAdd(committee_msg[w],
                                                channel_id(TheCommittee(w)), BotId, e))
                        ELSE gateway
    /\ UNCHANGED <<config, roles, resolvable, nreact, nmsg, joinVars, args,
                   delegate_member, committee, recipient_id, cleaned_content,
                   committee_msg, reaction_rx, vote, approved, replies_rx,
                   reply_msg, first_cast, arrived>>

ReactPositive(w) == React(w, "react_positive", POSITIVE_REACTION, "react_negative")
ReactNegative(w) == React(w, "react_negative", NEGATIVE_REACTION, "confirm")

\* main.rs:156: only an external request is voted on.
AfterConfirm(external) == IF external THEN "await_reaction" ELSE "await_replies"

\* main.rs:143-154: the confirmation to the requester.
Confirm(w) ==
    /\ pc[w] = "confirm"
    /\ \E ok \in BOOLEAN :
          Issue(w, [Call EXCEPT !.op = "reply", !.msg = CommandMessage(w),
                                !.chan = CommandChannel(w),
                                !.text = IF is_external(w)
                                         THEN "Your message has been forwarded for approval."
                                         ELSE "Your message has been forwarded.",
                                !.name = name(TheCommittee(w))],
                ok, AfterConfirm(is_external(w)))
    /\ UNCHANGED <<platformVars, joinVars, args, delegate_member, committee,
                   recipient_id, cleaned_content, committee_msg, reaction_rx, vote,
                   approved, replies_rx, reply_msg, first_cast, arrived>>

\* main.rs:157-160: await_reaction registers a collector for reactions added
\* to the committee message; it ends at its first event or at the timeout.
AwaitReaction(w) ==
    /\ pc[w] = "await_reaction"
    /\ pc' = [pc EXCEPT ![w] = "reaction_wait"]
    /\ UNCHANGED <<platformVars, joinVars, args, delegate_member, committee,
                   recipient_id, cleaned_content, committee_msg, reaction_rx, vote,
                   approved, replies_rx, reply_msg, log, result, first_cast, arrived>>

\* main.rs:157-169: Some(reaction): the first character of its emoji.
ReactionCollected(w) ==
    /\ pc[w] = "reaction_wait"
    /\ reaction_rx[w] # <<>>
    /\ vote' = [vote EXCEPT ![w] = reaction_rx[w][1].emoji]
    /\ reaction_rx' = [reaction_rx EXCEPT ![w] = <<>>]
    /\ pc' = [pc EXCEPT ![w] = "committee_reply"]
    /\ UNCHANGED <<platformVars, joinVars, args, delegate_member, committee,
                   recipient_id, cleaned_content, committee_msg, approved,
                   replies_rx, reply_msg, log, result, first_cast, arrived>>

\* main.rs:159,206: None: REACTION_TIMEOUT passed and no event was collected.
VoteTimeout(w) ==
    /\ pc[w] = "reaction_wait"
    /\ reaction_rx[w] = <<>>
    /\ vote' = [vote EXCEPT ![w] = "timeout"]
    /\ pc' = [pc EXCEPT ![w] = "committee_reply"]
    /\ UNCHANGED <<platformVars, joinVars, args, delegate_member, committee,
                   recipient_id, cleaned_content, committee_msg, reaction_rx,
                   approved, replies_rx, reply_msg, log, result, first_cast, arrived>>

\* main.rs:162-215: the match on the reaction: the text of the reply on the
\* committee message, and the value of `approved`.
OutcomeText(v) ==
    CASE v = POSITIVE_REACTION -> "This request has been approved."
      [] v = NEGATIVE_REACTION -> "This request has been rejected."
      [] v = "timeout" -> "No consensus reached in 10 minutes; rejecting request."
      [] OTHER -> "Invalid reaction; rejecting request."

\* A slip: everything but an explicit reject approves.
OutcomeApproved_UnlessRejected(v) == v # NEGATIVE_REACTION

OutcomeApproved(v) == v = POSITIVE_REACTION

\* main.rs:170-215: the outcome reply on the committee message.  It is a
\* message of the committee channel that references the committee message,
\* and the platform emits its event like any other message's.
CommitteeReply(w) ==
    /\ pc[w] = "committee_reply"
    /\ \E ok \in BOOLEAN :
          /\ Issue(w, [Call EXCEPT !.op = "reply", !.msg = committee_msg[w],
                                   !.chan = channel_id(TheCommittee(w)),
                                   !.text = OutcomeText(vote[w])],
                   ok, "requester_reply")
          /\ approved' = [approved EXCEPT ![w] = IF ok THEN OutcomeApproved(vote[w]) ELSE @]
          /\ gateway' = IF ok
                        THEN Append(gateway,
                               [Event EXCEPT !.type = "message", !.id = OutcomeMessage(w),
                                             !.channel_id = channel_id(TheCommittee(w)),
                                             !.ref = committee_msg[w], !.author = BotId,
                                             !.content = <<OutcomeText(vote[w])>>])
                        ELSE gateway
    /\ UNCHANGED <<config, roles, resolvable, nreact, nmsg, joinVars, args,
                   delegate_member, committee, recipient_id, cleaned_content,
                   committee_msg, reaction_rx, vote, replies_rx, reply_msg, first_cast,
                   arrived>>

\* main.rs:219-223.
\* A slip: the requester is told the request went through.
RequesterOutcomeText_Approved(a) == "This request has been approved."

RequesterOutcomeText(a) ==
    IF a THEN "This request has been approved." ELSE "This request has been rejected."

\* main.rs:227: the payload is delivered only when approved.
AfterRequesterReply(a) == IF a THEN "create_dm_channel" ELSE "await_replies"

\* main.rs:217-225: the outcome reply to the requester.
RequesterReply(w) ==
    /\ pc[w] = "requester_reply"
    /\ \E ok \in BOOLEAN :
          Issue(w, [Call EXCEPT !.op = "reply", !.msg = CommandMessage(w),
                                !.chan = CommandChannel(w),
                                !.text = RequesterOutcomeText(approved[w])],
                ok, AfterRequesterReply(approved[w]))
    /\ UNCHANGED <<platformVars, joinVars, args, delegate_member, committee,
                   recipient_id, cleaned_content, committee_msg, reaction_rx, vote,
                   approved, replies_rx, reply_msg, first_cast, arrived>>

\* main.rs:227-231: open the private channel to the recipient.
CreateDmChannel(w) ==
    /\ pc[w] = "create_dm_channel"
    /\ \E ok \in BOOLEAN :
          Issue(w, [Call EXCEPT !.op = "create_dm_channel",
                                !.mentions = <<recipient_id[w]>>], ok, "dm_say")
    /\ UNCHANGED <<platformVars, joinVars, args, delegate_member, committee,
                   recipient_id, cleaned_content, committee_msg, reaction_rx, vote,
                   approved, replies_rx, reply_msg, first_cast, arrived>>

\* main.rs:232-240: the direct message with the payload.
DmSay(w) ==
    /\ pc[w] = "dm_say"
    /\ \E ok \in BOOLEAN :
          Issue(w, [Call EXCEPT !.op = "say", !.chan = DmChannel(recipient_id[w]),
                                !.mentions = <<AuthorId>>,
                                !.text = "Received message from",
                                !.quote = cleaned_content[w]], ok, "await_replies")
    /\ UNCHANGED <<platformVars, joinVars, args, delegate_member, committee,
                   recipient_id, cleaned_content, committee_msg, reaction_rx, vote,
                   approved, replies_rx, reply_msg, first_cast, arrived>>

\* main.rs:244-257: await_replies registers a collector for the messages of
\* the committee channel that reference the committee message.
AwaitReplies(w) ==
    /\ pc[w] = "await_replies"
    /\ pc' = [pc EXCEPT ![w] = "replies_next"]
    /\ UNCHANGED <<platformVars, joinVars, args, delegate_member, committee,
                   recipient_id, cleaned_content, committee_msg, reaction_rx, vote,
                   approved, replies_rx, reply_msg, log, result, first_cast, arrived>>

\* main.rs:259: replies.next() yields Some(reply_msg).
NextReply(w) ==
    /\ pc[w] = "replies_next"
    /\ replies_rx[w] # <<>>
    /\ reply_msg' = [reply_msg EXCEPT ![w] = Head(replies_rx[w])]
    /\ replies_rx' = [replies_rx EXCEPT ![w] = Tail(@)]
    /\ pc' = [pc EXCEPT ![w] = "relay_say"]
    /\ UNCHANGED <<platformVars, joinVars, args, delegate_member, committee,
                   recipient_id, cleaned_content, committee_msg, reaction_rx, vote,
                   approved, log, result, first_cast, arrived>>

\* A slip: a subscription built without .timeout(..) never yields None.
RepliesTimeout_Missing(w) ==
    /\ pc[w] = "replies_next"
    /\ FALSE
    /\ UNCHANGED vars

\* main.rs:249,259,281: replies.next() yields None when REACTION_TIMEOUT has
\* passed with no reply left to hand out; the handler returns Ok(()).
RepliesTimeout(w) ==
    /\ pc[w] = "replies_next"
    /\ replies_rx[w] = <<>>
    /\ pc' = [pc EXCEPT ![w] = "returned"]
    /\ result' = [result EXCEPT ![w] = "Ok"]
    /\ UNCHANGED <<platformVars, joinVars, args, delegate_member, committee,
                   recipient_id, cleaned_content, committee_msg, reaction_rx, vote,
                   approved, replies_rx, reply_msg, log, first_cast, arrived>>

\* main.rs:260-276: relay the sanitized reply to the requester's channel.
RelaySay(w) ==
    /\ pc[w] = "relay_say"
    /\ \E ok \in BOOLEAN :
          Issue(w, [Call EXCEPT !.op = "say", !.chan = CommandChannel(w),
                                !.mentions = <<reply_msg[w].author>>,
                                !.text = "Received reply from",
                                !.quote = content_safe(reply_msg[w].content),
                                !.src = reply_msg[w].id], ok, "relay_react")
    /\ UNCHANGED <<platformVars, joinVars, args, delegate_member, committee,
                   recipient_id, cleaned_content, committee_msg, reaction_rx, vote,
                   approved, replies_rx, reply_msg, first_cast, arrived>>

\* A slip: a single-shot wait, the handler returns after the first reply.
AfterRelayReact_Once == "returned"

\* main.rs:259,279: the loop goes back to replies.next().
AfterRelayReact == "replies_next"

\* main.rs:278: mark the reply as sent.
RelayReact(w) ==
    /\ pc[w] = "relay_react"
    /\ \E ok \in BOOLEAN :
          Issue(w, [Call EXCEPT !.op = "react", !.msg = reply_msg[w].id,
                                !.chan = channel_id(TheCommittee(w)),
                                !.emoji = SENT_REACTION,
                                !.src = reply_msg[w].id], ok, AfterRelayReact)
    /\ UNCHANGED <<platformVars, joinVars, args, delegate_member, committee,
                   recipient_id, cleaned_content, committee_msg, reaction_rx, vote,
                   approved, replies_rx, reply_msg, first_cast, arrived>>

(***************************************************************************)
(* The platform.                                                           *)
(*                                                                         *)
(* The gateway hands each event to every collector registered at that      *)
(* moment whose filter it passes; an event that passes no registered       *)
(* filter is dropped.  The event of a call the bot made is emitted at that *)
(* step of the handler and reaches the collectors some time later, in the  *)
(* order of emission: it waits in `gateway`.  Nothing ties the moment a    *)
(* user acts to a step of a handler, so a user's event is handed over in   *)
(* the step that lets the user act.                                        *)
(***************************************************************************)
Running(w) == pc[w] \notin {"idle", "returned"}

\* A slip: a collector that keeps taking events after its first.
ReactionFilter_NoLimit(w, ev) ==
    /\ pc[w] = "reaction_wait"
    /\ ev.type = "reaction_add"
    /\ ev.id = committee_msg[w]

\* The collectors' filters (main.rs:158 and 246-256).
ReactionFilter(w, ev) ==
    /\ pc[w] = "reaction_wait"
    /\ reaction_rx[w] = <<>>
    /\ ev.type = "reaction_add"
    /\ ev.id = committee_msg[w]

\* A slip: any reply in the committee channel passes, whatever it replies to.
RepliesFilter_AnyReply(w, ev) ==
    /\ pc[w] \in {"replies_next", "relay_say", "relay_react"}
    /\ ev.type = "message"
    /\ ev.channel_id = channel_id(TheCommittee(w))
    /\ ev.ref # 0

RepliesFilter(w, ev) ==
    /\ pc[w] \in {"replies_next", "relay_say", "relay_react"}
    /\ ev.type = "message"
    /\ ev.channel_id = channel_id(TheCommittee(w))
    /\ ev.ref # 0
    /\ ev.ref = committee_msg[w]

Deliver(ev) ==
    /\ reaction_rx' = [w \in Workflows |->
                         IF ReactionFilter(w, ev) THEN <<ev>> ELSE reaction_rx[w]]
    /\ replies_rx' = [w \in Workflows |->
                        IF RepliesFilter(w, ev)
                        THEN Append(replies_rx[w],
                                    [id |-> ev.id, author |-> ev.author,
                                     content |-> ev.content])
                        ELSE replies_rx[w]]
    /\ arrived' = [w \in Workflows |->
                     IF RepliesFilter(w, ev)
                     THEN Append(arrived[w], [id |-> ev.id, author |-> ev.author,
                                              content |-> ev.content])
                     ELSE arrived[w]]

\* Where a `forward` invocation stands with respect to its vote.
Phase(w) ==
    CASE pc[w] = "confirm" -> "confirming"
      [] pc[w] = "reaction_wait" -> "waiting"
      [] vote[w] # "pending" -> "decided"
      [] OTHER -> "other"

\* A user adds a reaction to a committee message that has been posted.
UserReact(w, e) ==
    /\ Running(w)
    /\ committee_msg[w] # 0
    /\ nreact < MaxUserReactions
    /\ nreact' = nreact + 1
    /\ Deliver(ReactionAdd(committee_msg[w], channel_id(TheCommittee(w)), VoterId, e))
    /\ first_cast' = [first_cast EXCEPT ![w] =
                        IF @.emoji = "" THEN [emoji |-> e, phase |-> Phase(w)] ELSE @]
    /\ UNCHANGED <<config, roles, resolvable, gateway, nmsg, joinVars, pc, args,
                   delegate_member, committee, recipient_id, cleaned_content,
                   committee_msg, vote, approved, reply_msg, log, result>>

\* The text of the k-th message the users post.
UserContent(k) == IF k = 1 THEN <<"ok">> ELSE <<"@here", "no">>

\* A user posts a message in a committee channel: a reply to a committee
\* message, a reply to some other message, or no reply at all (ref = 0).
UserSay(w, ref) ==
    /\ Running(w)
    /\ committee_msg[w] # 0
    /\ nmsg < MaxUserMessages
    /\ nmsg' = nmsg + 1
    /\ Deliver([Event EXCEPT !.type = "message", !.id = UserMessage(nmsg + 1),
                             !.channel_id = channel_id(TheCommittee(w)),
                             !.ref = ref, !.author = VoterId,
                             !.content = UserContent(nmsg + 1)])
    /\ UNCHANGED <<config, roles, resolvable, gateway, nreact, joinVars, pc, args,
                   delegate_member, committee, recipient_id, cleaned_content,
                   committee_msg, vote, approved, reply_msg, log, result, first_cast>>

\* The oldest of the bot's own events reaches the collectors.
Dispatch ==
    /\ gateway # <<>>
    /\ gateway' = Tail(gateway)
    /\ Deliver(Head(gateway))
    /\ UNCHANGED <<config, roles, resolvable, nreact, nmsg, joinVars, pc, args,
                   delegate_member, committee, recipient_id, cleaned_content,
                   committee_msg, vote, approved, reply_msg, log, result, first_cast>>

(***************************************************************************)
(* `join` (main.rs:288-362).                                               *)
(***************************************************************************)

\* str::to_lowercase on the letters the model uses.
Upper == <<"A", "B", "C", "D", "E", "F", "G", "H", "I", "J", "K", "L", "M",
           "N", "O", "P", "Q", "R", "S", "T", "U", "V", "W", "X", "Y", "Z">>
Lower == <<"a", "b", "c", "d", "e", "f", "g", "h", "i", "j", "k", "l", "m",
           "n", "o", "p", "q", "r", "s", "t", "u", "v", "w", "x", "y", "z">>
ToLowerChar(c) ==
    IF \E i \in DOMAIN Upper : Upper[i] = c
    THEN Lower[CHOOSE i \in DOMAIN Upper : Upper[i] = c]
    ELSE c
to_lowercase(s) == [i \in DOMAIN s |-> ToLowerChar(s[i])]

\* The display names of the guild's roles (guild.roles[..].name).
RoleName(r) ==
    CASE r = 21 -> <<"L", "a", "w">>
      [] r = 22 -> <<"F", "i", "n", "a", "n", "c", "e">>
      [] r = 10 -> <<"D", "e", "l", "e", "g", "a", "t", "e">>
      [] OTHER -> <<"S", "t", "a", "f", "f">>

\* What the member may type after `join`.
Queries ==
    { <<"F", "i", "n", "a", "n", "c", "e">>, <<"f", "i", "n", "a", "n", "c", "e">>,
      <<"L", "A", "W">>, <<"L", "e", "g", "a", "l">>, <<"l", "e", "g", "a", "l">>,
      <<"x">> }

\* msg.guild_id: the configured guild, another guild, or None (0) in a DM.
MessageGuilds == {90, OtherGuildId, 0}

JIssue(j, call, ok, next) ==
    /\ jlog' = [jlog EXCEPT ![j] = Append(@, [call EXCEPT !.ok = ok])]
    /\ jpc' = [jpc EXCEPT ![j] = IF ok THEN next ELSE "returned"]
    /\ jresult' = [jresult EXCEPT ![j] =
                     IF ~ok THEN "Err" ELSE IF next = "returned" THEN "Ok" ELSE @]

\* The member sends `join <q>` in a channel of guild g (0: in a DM).
JoinCommand(j, q, g) ==
    /\ jpc[j] = "idle"
    /\ query' = [query EXCEPT ![j] = q]
    /\ msg_guild_id' = [msg_guild_id EXCEPT ![j] = g]
    /\ jpc' = [jpc EXCEPT ![j] = "guild_check"]
    /\ UNCHANGED <<platformVars, forwardVars, jcommittee, member, member_role_ids,
                   other_committee_roles, roles_to_add, jlog, jresult>>

\* A slip: a message without a guild (a DM) passes the guild check.
in_valid_guild_NoneOk(cfg, g) == g = 0 \/ g = guild_id(cfg)

\* main.rs:295-298.
in_valid_guild(cfg, g) == g # 0 /\ g = guild_id(cfg)

\* main.rs:295-306.
JoinGuildCheck(j) ==
    /\ jpc[j] = "guild_check"
    /\ IF ~in_valid_guild(config, msg_guild_id[j])
       THEN \E ok \in BOOLEAN :
               JIssue(j, [Call EXCEPT !.op = "say", !.chan = CommandChannel(j),
                                      !.text = "I'm not configured to work here."],
                      ok, "returned")
       ELSE /\ jpc' = [jpc EXCEPT ![j] = "find_committee"]
            /\ UNCHANGED <<jlog, jresult>>
    /\ UNCHANGED <<platformVars, forwardVars, query, msg_guild_id, jcommittee, member,
                   member_role_ids, other_committee_roles, roles_to_add>>

\* main.rs:310-315: the first committee, in configured order, whose role's
\* display name, lowercased, or whose configured name equals the lowercased
\* query; 0 for None.
JoinFind(cfg, q) ==
    LET lq == to_lowercase(q)
        hits == {i \in DOMAIN committees(cfg) :
                    \/ lq = to_lowercase(RoleName(role_id(committees(cfg)[i])))
                    \/ lq = name(committees(cfg)[i])}
    IN IF hits = {} THEN 0 ELSE CHOOSE i \in hits : \A k \in hits : i <= k

\* main.rs:308-322.
JoinFindCommittee(j) ==
    /\ jpc[j] = "find_committee"
    /\ LET c == JoinFind(config, query[j]) IN
       IF c = 0
       THEN /\ \E ok \in BOOLEAN :
                 JIssue(j, [Call EXCEPT !.op = "reply", !.msg = JoinMessage(j),
                                        !.chan = CommandChannel(j),
                                        !.text = "Sorry, I couldn't find a committee by that name."],
                        ok, "returned")
            /\ UNCHANGED jcommittee
       ELSE /\ jcommittee' = [jcommittee EXCEPT ![j] = c]
            /\ jpc' = [jpc EXCEPT ![j] = "member"]
            /\ UNCHANGED <<jlog, jresult>>
    /\ UNCHANGED <<platformVars, forwardVars, query, msg_guild_id, member,
                   member_role_ids, other_committee_roles, roles_to_add>>

\* main.rs:326-330.
committee_role_ids(cfg) == {role_id(committees(cfg)[i]) : i \in DOMAIN committees(cfg)}

\* main.rs:343-348.
intended_roles(cfg, c) == {role_id(committees(cfg)[c]), delegate_role_id(cfg)}

\* main.rs:334-337: the committee roles the member holds.
OtherCommitteeRoles(cfg, c, held) == committee_role_ids(cfg) \cap held

\* main.rs:350-353.
RolesToAdd(cfg, c, held) == intended_roles(cfg, c) \ held

\* main.rs:324-353: msg.member reads the member; the role sets are computed
\* from that reading, before any mutation.
JoinMember(j) ==
    /\ jpc[j] = "member"
    /\ \E ok \in BOOLEAN :
          /\ JIssue(j, [Call EXCEPT !.op = "member"], ok, "remove_roles")
          /\ IF ok
             THEN /\ member' = [member EXCEPT ![j] = roles]
                  /\ member_role_ids' = [member_role_ids EXCEPT ![j] = roles]
                  /\ other_committee_roles' =
                        [other_committee_roles EXCEPT ![j] =
                            OtherCommitteeRoles(config, jcommittee[j], roles)]
                  /\ roles_to_add' =
                        [roles_to_add EXCEPT ![j] = RolesToAdd(config, jcommittee[j], roles)]
             ELSE UNCHANGED <<member, member_role_ids, other_committee_roles, roles_to_add>>
    /\ UNCHANGED <<platformVars, forwardVars, query, msg_guild_id, jcommittee>>

\* main.rs:339-341: Member::remove_roles drops the roles from its copy of
\* the member and writes the copy's role list to the platform.
JoinRemoveRoles(j) ==
    /\ jpc[j] = "remove_roles"
    /\ IF other_committee_roles[j] # {}
       THEN \E ok \in BOOLEAN :
               /\ JIssue(j, [Call EXCEPT !.op = "remove_roles",
                                         !.mentions = <<Cardinality(other_committee_roles[j])>>],
                         ok, "add_roles")
               /\ member' = [member EXCEPT ![j] =
                               IF ok THEN @ \ other_committee_roles[j] ELSE @]
               /\ roles' = IF ok THEN member[j] \ other_committee_roles[j] ELSE roles
       ELSE /\ jpc' = [jpc EXCEPT ![j] = "add_roles"]
            /\ UNCHANGED <<jlog, jresult, member, roles>>
    /\ UNCHANGED <<config, resolvable, gateway, nreact, nmsg, forwardVars, query,
                   msg_guild_id, jcommittee, member_role_ids, other_committee_roles,
                   roles_to_add>>

\* main.rs:355-357: Member::add_roles, likewise.
JoinAddRoles(j) ==
    /\ jpc[j] = "add_roles"
    /\ IF roles_to_add[j] # {}
       THEN \E ok \in BOOLEAN :
               /\ JIssue(j, [Call EXCEPT !.op = "add_roles",
                                         !.mentions = <<Cardinality(roles_to_add[j])>>],
                         ok, "react")
               /\ member' = [member EXCEPT ![j] =
                               IF ok THEN @ \cup roles_to_add[j] ELSE @]
               /\ roles' = IF ok THEN member[j] \cup roles_to_add[j] ELSE roles
       ELSE /\ jpc' = [jpc EXCEPT ![j] = "react"]
            /\ UNCHANGED <<jlog, jresult, member, roles>>
    /\ UNCHANGED <<config, resolvable, gateway, nreact, nmsg, forwardVars, query,
                   msg_guild_id, jcommittee, member_role_ids, other_committee_roles,
                   roles_to_add>>

\* main.rs:359-361.
JoinReact(j) ==
    /\ jpc[j] = "react"
    /\ \E ok \in BOOLEAN :
          JIssue(j, [Call EXCEPT !.op = "react", !.msg = JoinMessage(j),
                                 !.chan = CommandChannel(j),
                                 !.emoji = POSITIVE_REACTION], ok, "returned")
    /\ UNCHANGED <<platformVars, forwardVars, query, msg_guild_id, jcommittee, member,
                   member_role_ids, other_committee_roles, roles_to_add>>

(***************************************************************************)
(* Specifications.                                                         *)
(***************************************************************************)
InitPlatform ==
    /\ config \in ConfigFiles
    /\ roles \in SUBSET RoleIds
    /\ resolvable \in BOOLEAN
    /\ gateway = <<>>
    /\ nreact = 0
    /\ nmsg = 0

InitForward(issued) ==
    /\ pc = [w \in Workflows |-> IF w \in issued THEN "get_member" ELSE "idle"]
    /\ args \in [Workflows -> CommandTexts]
    /\ \A w \in Workflows \ issued : args[w] = <<"Just", "a", "note">>
    /\ delegate_member = [w \in Workflows |-> [ok |-> FALSE, roles |-> {}]]
    /\ committee = [w \in Workflows |-> 0]
    /\ recipient_id = [w \in Workflows |-> 0]
    /\ cleaned_content = [w \in Workflows |-> <<>>]
    /\ committee_msg = [w \in Workflows |-> 0]
    /\ reaction_rx = [w \in Workflows |-> <<>>]
    /\ vote = [w \in Workflows |-> "pending"]
    /\ approved = [w \in Workflows |-> FALSE]
    /\ replies_rx = [w \in Workflows |-> <<>>]
    /\ reply_msg = [w \in Workflows |-> NoMessage]
    /\ log = [w \in Workflows |-> <<>>]
    /\ result = [w \in Workflows |-> "running"]
    /\ first_cast = [w \in Workflows |-> [emoji |-> "", phase |-> ""]]
    /\ arrived = [w \in Workflows |-> <<>>]

InitJoin ==
    /\ jpc = [j \in Joins |-> "idle"]
    /\ query = [j \in Joins |-> <<>>]
    /\ msg_guild_id = [j \in Joins |-> 0]
    /\ jcommittee = [j \in Joins |-> 0]
    /\ member = [j \in Joins |-> {}]
    /\ member_role_ids = [j \in Joins |-> {}]
    /\ other_committee_roles = [j \in Joins |-> {}]
    /\ roles_to_add = [j \in Joins |-> {}]
    /\ jlog = [j \in Joins |-> <<>>]
    /\ jresult = [j \in Joins |-> "running"]

\* One `forward` invocation, from the arrival of its command.
Init == InitPlatform /\ InitForward({1}) /\ InitJoin

Forward(w) ==
    \/ GetMember(w) \/ Authorize(w) \/ StartTyping(w) \/ CommitteeSay(w)
    \/ ReactPositive(w) \/ ReactNegative(w) \/ Confirm(w)
    \/ AwaitReaction(w) \/ ReactionCollected(w) \/ VoteTimeout(w)
    \/ CommitteeReply(w) \/ RequesterReply(w) \/ CreateDmChannel(w) \/ DmSay(w)
    \/ AwaitReplies(w) \/ NextReply(w) \/ RepliesTimeout(w)
    \/ RelaySay(w) \/ RelayReact(w)

Refs(w) == {0, OtherMessageId} \cup {committee_msg[v] : v \in Workflows}

Platform ==
    \/ \E w \in Workflows, e \in Emoji : UserReact(w, e)
    \/ \E w \in Workflows : \E ref \in Refs(w) : UserSay(w, ref)
    \/ Dispatch

Next == (\E w \in Workflows : Forward(w)) \/ Platform

Spec == Init /\ [][Next]_vars

\* The `join` handler alone: the member's commands, each run to its end, in
\* any interleaving.
JoinInit == InitPlatform /\ InitForward({}) /\ InitJoin

Join(j) ==
    \/ \E q \in Queries, g \in MessageGuilds : JoinCommand(j, q, g)
    \/ JoinGuildCheck(j) \/ JoinFindCommittee(j) \/ JoinMember(j)
    \/ JoinRemoveRoles(j) \/ JoinAddRoles(j) \/ JoinReact(j)

JoinNext == \E j \in Joins : Join(j)

JoinSpec == JoinInit /\ [][JoinNext]_vars

\* Either command on its own: one `forward` with the users' reactions and
\* replies, or the member's `join` commands.
HandlerInit == InitPlatform /\ (InitForward({1}) \/ InitForward({})) /\ InitJoin

HandlerNext == Next \/ ((\A w \in Workflows : pc[w] = "idle") /\ JoinNext)

HandlerSpec == HandlerInit /\ [][HandlerNext]_vars

\* Two `forward` invocations of the same delegate, active together and bound
\* to the same committee channel: an external request and an internal one.
ConcurrentInit ==
    /\ InitPlatform /\ InitForward({1, 2}) /\ InitJoin
    /\ committees(config) = <<Finance>>
    /\ roles = {10, 22}
    /\ resolvable
    /\ args[1] = <<"<@77>", "Hello", "@everyone">>
    /\ args[2] = <<"Just", "a", "note">>

ConcurrentSpec == ConcurrentInit /\ [][Next]_vars

\* The `join` commands of a member who holds at most one committee role.
MemberInit == JoinInit /\ Cardinality(roles \cap committee_role_ids(config)) <= 1

MemberSpec == MemberInit /\ [][JoinNext]_vars

\* The runtime polls a handler whenever what it awaits is ready (a call's
\* response, a collected event, a passed deadline), and the gateway hands
\* over every event it holds.  The users are under no obligation.
FairSpec == Spec /\ (\A w \in Workflows : WF_vars(Forward(w))) /\ WF_vars(Dispatch)

(***************************************************************************)
(* Properties.                                                             *)
(***************************************************************************)
IsDm(c) == c.op = "say" /\ c.text = "Received message from"
IsDmOpen(c) == c.op = "create_dm_channel"
IsCommitteePost(c) == c.op = "say" /\ c.text \in
    {"Received request to forward message; use the reactions; reply after voting",
     "Received request; reply to this message"}
IsAffordance(c) == c.op = "react" /\ c.emoji \in {POSITIVE_REACTION, NEGATIVE_REACTION}
IsCommitteeOutcome(w, c) == c.op = "reply" /\ c.msg = CommitteeMessage(w)
IsRequesterOutcome(w, c) ==
    /\ c.op = "reply"
    /\ c.msg = CommandMessage(w)
    /\ c.text \in {"This request has been approved.", "This request has been rejected."}
IsRelay(c) == c.op = "say" /\ c.text = "Received reply from"
IsSent(c) == c.op = "react" /\ c.emoji = SENT_REACTION

\* C1: a direct message with the payload is sent (or its private channel
\* opened) only for an external request whose vote returned the approve
\* reaction; never after a reject, another reaction or the timeout, and never
\* for an internal request.  The message goes to the recipient's private
\* channel and quotes the sanitized payload.
C1_DmOnlyIfApproved ==
    \A w \in Workflows :
        \A i \in DOMAIN log[w] :
            (IsDm(log[w][i]) \/ IsDmOpen(log[w][i])) =>
                /\ vote[w] = POSITIVE_REACTION
                /\ recipient_id[w] # 0
                /\ IsDm(log[w][i]) =>
                      /\ log[w][i].chan = DmChannel(recipient_id[w])
                      /\ log[w][i].quote = cleaned_content[w]

\* A request was approved and its payload delivered.
C1_Witness ==
    \E w \in Workflows :
        /\ vote[w] = POSITIVE_REACTION
        /\ \E i \in DOMAIN log[w] : IsDm(log[w][i]) /\ log[w][i].ok

\* C2: the vote is decided once, by the first reaction event the collector
\* takes or else by the timeout, and nothing changes it afterwards: the
\* collected event is never replaced, approve alone approves, and there is at
\* most one outcome reply on the committee message, one to the requester and
\* one direct message, each in the terms the decision gives.
C2_Decided(w) ==
    /\ Cardinality({i \in DOMAIN log[w] : IsCommitteeOutcome(w, log[w][i])}) <= 1
    /\ Cardinality({i \in DOMAIN log[w] : IsRequesterOutcome(w, log[w][i])}) <= 1
    /\ Cardinality({i \in DOMAIN log[w] : IsDm(log[w][i])}) <= 1
    /\ \A i \in DOMAIN log[w] :
          /\ IsCommitteeOutcome(w, log[w][i]) =>
                /\ vote[w] # "pending"
                /\ log[w][i].text =
                      (CASE vote[w] = POSITIVE_REACTION -> "This request has been approved."
                         [] vote[w] = NEGATIVE_REACTION -> "This request has been rejected."
                         [] vote[w] = "timeout" ->
                               "No consensus reached in 10 minutes; rejecting request."
                         [] OTHER -> "Invalid reaction; rejecting request.")
          /\ IsRequesterOutcome(w, log[w][i]) =>
                (log[w][i].text = "This request has been approved."
                    <=> vote[w] = POSITIVE_REACTION)
    /\ approved[w] => vote[w] = POSITIVE_REACTION

C2_Step(w) ==
    /\ vote[w] # "pending" => vote'[w] = vote[w]
    /\ (vote[w] = "pending" /\ vote'[w] # "pending") =>
          /\ pc[w] = "reaction_wait"
          /\ vote'[w] = IF reaction_rx[w] # <<>> THEN reaction_rx[w][1].emoji ELSE "timeout"
    /\ reaction_rx[w] # <<>> => reaction_rx'[w] \in {reaction_rx[w], <<>>}
    /\ (pc[w] = "reaction_wait" /\ pc'[w] # "reaction_wait") => vote'[w] # "pending"
    /\ C2_Decided(w)'

C2_DecidedOnce == [][\A w \in Workflows : C2_Step(w)]_vars

\* A vote was decided by a reaction that is neither approve nor reject, a
\* second reaction came, and the request was rejected once.
C2_Witness ==
    \E w \in Workflows :
        /\ result[w] = "Ok"
        /\ vote[w] = OtherReaction
        /\ nreact = 2
        /\ ~approved[w]
        /\ \E i \in DOMAIN log[w] :
              /\ IsCommitteeOutcome(w, log[w][i])
              /\ log[w][i].text = "Invalid reaction; rejecting request."

\* C3: for an external request whose platform calls all succeed (the handler
\* returned Ok), if the first reaction a user added to the committee message
\* is the approve reaction, added after both affordances were attached and
\* before the vote was decided (while the confirmation to the requester was
\* being sent, or while the vote wait was open), then the payload was
\* delivered to the recipient's private channel, attributed to the
\* requester, and the requester was told "approved".
C3_ApproveDelivers ==
    \A w \in Workflows :
        ( /\ result[w] = "Ok"
          /\ recipient_id[w] # 0
          /\ first_cast[w].emoji = POSITIVE_REACTION
          /\ first_cast[w].phase \in {"confirming", "waiting"} )
        => /\ \E i \in DOMAIN log[w] :
                 /\ IsDm(log[w][i])
                 /\ log[w][i].ok
                 /\ log[w][i].chan = DmChannel(recipient_id[w])
                 /\ log[w][i].mentions = <<AuthorId>>
                 /\ log[w][i].quote = cleaned_content[w]
           /\ \E i \in DOMAIN log[w] :
                 /\ IsRequesterOutcome(w, log[w][i])
                 /\ log[w][i].text = "This request has been approved."

\* The positions of a `forward` invocation after its outcome was reported.
Resolved(w) ==
    \/ pc[w] \in {"create_dm_channel", "dm_say", "await_replies", "replies_next",
                  "relay_say", "relay_react"}
    \/ result[w] = "Ok"

\* C4: an external request gets at most one outcome reply on the committee
\* message and at most one to the requester, the requester's only after the
\* committee's was posted, and the two agree on approved or rejected; once
\* the outcome is reported there is exactly one of each.  After a timeout
\* the committee reply is the "No consensus" text, the requester is told
\* "rejected" and no direct message is sent.
C4_OutcomeReplies ==
    \A w \in Workflows :
        LET co == {i \in DOMAIN log[w] : IsCommitteeOutcome(w, log[w][i])}
            ro == {i \in DOMAIN log[w] : IsRequesterOutcome(w, log[w][i])}
        IN /\ Cardinality(co) <= 1
           /\ Cardinality(ro) <= 1
           /\ \A r \in ro : \E c \in co :
                 /\ c < r
                 /\ log[w][c].ok
                 /\ log[w][c].chan = channel_id(TheCommittee(w))
                 /\ log[w][r].chan = CommandChannel(w)
                 /\ (log[w][c].text = "This request has been approved."
                        <=> log[w][r].text = "This request has been approved.")
                 /\ log[w][c].text # "This request has been approved."
                        => log[w][r].text = "This request has been rejected."
           /\ (recipient_id[w] # 0 /\ Resolved(w)) =>
                 /\ Cardinality(co) = 1
                 /\ Cardinality(ro) = 1
                 /\ \A r \in ro : log[w][r].ok
           /\ vote[w] = "timeout" =>
                 /\ \A c \in co : log[w][c].text =
                       "No consensus reached in 10 minutes; rejecting request."
                 /\ \A r \in ro : log[w][r].text = "This request has been rejected."
                 /\ \A i \in DOMAIN log[w] : ~IsDm(log[w][i]) /\ ~IsDmOpen(log[w][i])

\* A vote timed out and the handler ran to its end.
C4_Witness ==
    \E w \in Workflows :
        /\ result[w] = "Ok"
        /\ vote[w] = "timeout"
        /\ \E i \in DOMAIN log[w] : IsRequesterOutcome(w, log[w][i])

\* The positions of a `forward` invocation in its vote.
Voting(w) == pc[w] \in {"react_positive", "react_negative", "await_reaction",
                        "reaction_wait", "committee_reply", "requester_reply",
                        "create_dm_channel", "dm_say"}

\* C5: a vote is opened exactly for the external requests.  An internal
\* request is never in a position of the vote, collects no reaction, and its
\* calls are: typing, the committee post, the confirmation, and then only
\* relays of replies and their "sent" marks.  An external request that
\* reached the confirmation has attached both affordances right after its
\* committee post, and once resolved it has waited for the vote and posted
\* the outcome.
C5_VoteIffExternal ==
    \A w \in Workflows :
        /\ (Voting(w) \/ vote[w] # "pending" \/ reaction_rx[w] # <<>>) => recipient_id[w] # 0
        /\ \A i \in DOMAIN log[w] :
              ( \/ IsAffordance(log[w][i]) \/ IsCommitteeOutcome(w, log[w][i])
                \/ IsRequesterOutcome(w, log[w][i]) \/ IsDm(log[w][i])
                \/ IsDmOpen(log[w][i]) ) => recipient_id[w] # 0
        /\ (recipient_id[w] = 0 /\ committee_msg[w] # 0) =>
              /\ IsCommitteePost(log[w][2])
              /\ log[w][2].text = "Received request; reply to this message"
              /\ Len(log[w]) >= 3 =>
                    /\ log[w][3].op = "reply"
                    /\ log[w][3].text = "Your message has been forwarded."
              /\ \A i \in DOMAIN log[w] : i > 3 => IsRelay(log[w][i]) \/ IsSent(log[w][i])
              /\ (pc[w] \in {"await_replies", "replies_next"} /\ arrived[w] = <<>>)
                    => Len(log[w]) = 3
        /\ (recipient_id[w] # 0 /\ (pc[w] \in {"confirm", "await_reaction", "reaction_wait"}
                                    \/ vote[w] # "pending")) =>
              /\ IsCommitteePost(log[w][2])
              /\ log[w][3].op = "react" /\ log[w][3].emoji = POSITIVE_REACTION
              /\ log[w][4].op = "react" /\ log[w][4].emoji = NEGATIVE_REACTION
              /\ log[w][3].msg = committee_msg[w] /\ log[w][4].msg = committee_msg[w]
        /\ (recipient_id[w] # 0 /\ Resolved(w)) =>
              /\ vote[w] # "pending"
              /\ \E i \in DOMAIN log[w] : IsCommitteeOutcome(w, log[w][i])
              /\ \E i \in DOMAIN log[w] : IsRequesterOutcome(w, log[w][i])

\* An internal request relayed a reply and ran to its end.
C5_Witness ==
    \E w \in Workflows :
        /\ result[w] = "Ok"
        /\ committee_msg[w] # 0
        /\ recipient_id[w] = 0
        /\ \E i \in DOMAIN log[w] : IsSent(log[w][i]) /\ log[w][i].ok

RelayOpen(w) == pc[w] \in {"replies_next", "relay_say", "relay_react"}

\* The relay calls and the "sent" marks of w, in the order issued.
Relays(w) == SelectSeq(log[w], IsRelay)
Sents(w) == SelectSeq(log[w], IsSent)

C6_Relayed(w) ==
    /\ Len(Relays(w)) <= Len(arrived[w])
    /\ \A k \in DOMAIN Relays(w) :
          /\ Relays(w)[k].src = arrived[w][k].id
          /\ Relays(w)[k].chan = CommandChannel(w)
          /\ Relays(w)[k].mentions = <<arrived[w][k].author>>
          /\ k < Len(Relays(w)) => Relays(w)[k].ok
    /\ \A k1, k2 \in DOMAIN arrived[w] : arrived[w][k1].id = arrived[w][k2].id => k1 = k2
    /\ Len(Sents(w)) <= Len(Relays(w))
    /\ Len(Relays(w)) <= Len(Sents(w)) + 1
    /\ \A i \in DOMAIN log[w] :
          IsSent(log[w][i]) =>
             /\ i > 1
             /\ IsRelay(log[w][i - 1])
             /\ log[w][i - 1].ok
             /\ log[w][i - 1].src = log[w][i].src
             /\ log[w][i].msg = log[w][i].src
    /\ (RelayOpen(w) \/ arrived[w] # <<>>) => committee[w] # 0
    /\ (RelayOpen(w) /\ recipient_id[w] # 0) => vote[w] # "pending"
    /\ result[w] = "Ok" =>
          /\ Len(Relays(w)) = Len(arrived[w])
          /\ Len(Sents(w)) = Len(arrived[w])
          /\ \A k \in DOMAIN Sents(w) : Sents(w)[k].ok

Authorized(w) == pc[w] \notin {"idle", "get_member", "authorize"}

\* The only call of w is one message with this text in the requester's
\* channel, and w has ended without resolving a committee.
OnlyError(w, text) ==
    /\ pc[w] = "returned"
    /\ committee[w] = 0
    /\ Len(log[w]) = 1
    /\ log[w][1].op = "say"
    /\ log[w][1].chan = CommandChannel(w)
    /\ log[w][1].text = text
    /\ result[w] = (IF log[w][1].ok THEN "Ok" ELSE "Err")

\* The author holds the role of some configured committee.
OnCommittee == \E i \in DOMAIN committees(config) : role_id(committees(config)[i]) \in roles

\* C7: once the authorization of a `forward` is over, an author who is not a
\* resolvable member got the "unacquainted" error, else an author without
\* the delegate role got the delegate-only error whatever committee roles
\* they hold, else an author on no committee got the unknown-committee
\* error; in each case that one message is the invocation's only platform
\* call (no committee post, no reaction, no direct message) and it has
\* ended.  Otherwise no error message is sent.
C7_AuthorizationErrors ==
    \A w \in Workflows :
        Authorized(w) =>
            IF ~resolvable
            THEN OnlyError(w, "Umm... have I made your acquaintance?")
            ELSE IF delegate_role_id(config) \notin roles
            THEN OnlyError(w, "This command is only available to delegates.")
            ELSE IF ~OnCommittee
            THEN OnlyError(w, "Sorry, but I'm not sure which committee you're on.")
            ELSE /\ committee[w] # 0
                 /\ \A i \in DOMAIN log[w] :
                       log[w][i].text \notin
                          {"Umm... have I made your acquaintance?",
                           "This command is only available to delegates.",
                           "Sorry, but I'm not sure which committee you're on."}

\* A member on both committees but without the delegate role was sent the
\* delegate-only error.
C7_Witness ==
    \E w \in Workflows :
        /\ resolvable
        /\ {21, 22} \subseteq roles
        /\ Len(committees(config)) = 2
        /\ result[w] = "Ok"
        /\ Len(log[w]) = 1
        /\ log[w][1].text = "This command is only available to delegates."

\* The channels of the configured committees.
CommitteeChannels == {channel_id(committees(config)[i]) : i \in DOMAIN committees(config)}

\* C8: an authorized request is bound to the first committee in configured
\* order whose role the author holds, also when the author holds several
\* committee roles; an author whose roles are exactly one committee's role
\* and the delegate role is bound to that committee; and every call of the
\* invocation that goes to a committee channel goes to the channel of the
\* committee it is bound to, the payload post among them.
C8_FirstCommittee ==
    \A w \in Workflows :
        /\ (Authorized(w) /\ committee[w] # 0) =>
              /\ committee[w] \in DOMAIN committees(config)
              /\ role_id(TheCommittee(w)) \in roles
              /\ \A k \in DOMAIN committees(config) :
                    k < committee[w] => role_id(committees(config)[k]) \notin roles
              /\ \A i \in DOMAIN committees(config) :
                    roles = {role_id(committees(config)[i]), delegate_role_id(config)}
                       => committee[w] = i
              /\ \A i \in DOMAIN log[w] :
                    log[w][i].chan \in CommitteeChannels
                       => log[w][i].chan = channel_id(TheCommittee(w))
              /\ committee_msg[w] # 0 =>
                    /\ IsCommitteePost(log[w][2])
                    /\ log[w][2].chan = channel_id(TheCommittee(w))
                    /\ log[w][2].quote = cleaned_content[w]
        /\ (Authorized(w) /\ resolvable /\ delegate_role_id(config) \in roles /\ OnCommittee)
              => committee[w] # 0
        /\ committee[w] = 0 => \A i \in DOMAIN log[w] : log[w][i].chan \notin CommitteeChannels

\* A delegate on both committees, the second of which is configured first,
\* had the payload posted to that committee's channel.
C8_Witness ==
    \E w \in Workflows :
        /\ committees(config) = <<Finance, Legal>>
        /\ roles = {10, 21, 22}
        /\ committee[w] = 1
        /\ committee_msg[w] # 0
        /\ log[w][2].chan = 32

\* Invocation j of `join` is the only one the member has issued.
OnlyJoin(j) == \A k \in Joins \ {j} : jpc[k] = "idle"

\* Invocation j ended with the positive reaction on the command message.
Acknowledged(j) ==
    /\ jresult[j] = "Ok"
    /\ jlog[j][Len(jlog[j])].op = "react"
    /\ jlog[j][Len(jlog[j])].msg = JoinMessage(j)
    /\ jlog[j][Len(jlog[j])].emoji = POSITIVE_REACTION

\* C9: after a `join` that resolved its query to a committee C and completed
\* successfully, whatever roles the member held before, the member holds C's
\* role and the delegate role and the role of no other configured committee,
\* and the command was acknowledged with the positive reaction.
C9_JoinSetsRoles ==
    \A j \in Joins :
        (jresult[j] = "Ok" /\ jcommittee[j] # 0 /\ OnlyJoin(j)) =>
            /\ intended_roles(config, jcommittee[j]) \subseteq roles
            /\ roles \cap committee_role_ids(config)
                  = {role_id(committees(config)[jcommittee[j]])}
            /\ Acknowledged(j)

\* C10: when the member read by `join C` already holds C's role and the
\* delegate role and no other committee's role, the invocation issues neither
\* a remove-roles nor an add-roles call, the member's role set stays as it
\* was read, and a run that completes is acknowledged with the positive
\* reaction.
C10_JoinIdempotent ==
    \A j \in Joins :
        ( /\ jpc[j] \in {"remove_roles", "add_roles", "react", "returned"}
          /\ jcommittee[j] # 0
          /\ OnlyJoin(j)
          /\ jlog[j] # <<>> /\ jlog[j][1].op = "member" /\ jlog[j][1].ok
          /\ intended_roles(config, jcommittee[j]) \subseteq member_role_ids[j]
          /\ member_role_ids[j] \cap committee_role_ids(config)
                = {role_id(committees(config)[jcommittee[j]])} )
        => /\ \A i \in DOMAIN jlog[j] : jlog[j][i].op \notin {"remove_roles", "add_roles"}
           /\ roles = member_role_ids[j]
           /\ jresult[j] = "Ok" => Acknowledged(j)

\* The only call of join j is this one, and j has ended without touching a role.
OnlyJoinError(j, op, text) ==
    /\ jpc[j] = "returned"
    /\ Len(jlog[j]) = 1
    /\ jlog[j][1].op = op
    /\ jlog[j][1].chan = CommandChannel(j)
    /\ jlog[j][1].text = text
    /\ jresult[j] = (IF jlog[j][1].ok THEN "Ok" ELSE "Err")

C11_Errors(j) ==
    /\ ( /\ jpc[j] \notin {"idle", "guild_check"}
         /\ (msg_guild_id[j] = 0 \/ msg_guild_id[j] # guild_id(config)) )
       => OnlyJoinError(j, "say", "I'm not configured to work here.")
    /\ ( /\ jpc[j] \notin {"idle", "guild_check", "find_committee"}
         /\ msg_guild_id[j] = guild_id(config)
         /\ jcommittee[j] = 0 )
       => /\ OnlyJoinError(j, "reply", "Sorry, I couldn't find a committee by that name.")
          /\ jlog[j][1].msg = JoinMessage(j)

\* A step of join j that leaves it without a resolved committee.
C11_NoMutation(j) ==
    (jpc'[j] # jpc[j] /\ jcommittee'[j] = 0) => roles' = roles

\* C11: a `join` sent outside the configured guild (another guild, or a DM)
\* is answered with the wrong-guild message, and one whose text resolves to
\* no configured committee with the unknown-committee reply; in both cases
\* that message is the invocation's only platform call (no remove-roles, no
\* add-roles, no positive reaction) and none of its steps changes the
\* member's role set.
C11_JoinErrors ==
    /\ [](\A j \in Joins : C11_Errors(j))
    /\ [][\A j \in Joins : C11_NoMutation(j)]_vars

\* A member on a committee sent `join` in a DM, and later `join x` in the
\* guild; both were answered with their errors.
C11_Witness ==
    /\ roles \cap {21, 22} # {}
    /\ \E j, k \in Joins :
          /\ msg_guild_id[j] = 0
          /\ jresult[j] = "Ok"
          /\ jlog[j][1].text = "I'm not configured to work here."
          /\ query[k] = <<"x">>
          /\ jresult[k] = "Ok"
          /\ jlog[k][1].text = "Sorry, I couldn't find a committee by that name."

\* The committees that q names when letter case is ignored: by the
\* configured display name or by the display name of the committee's role.
NamedIgnoringCase(q) ==
    {i \in DOMAIN committees(config) :
        \/ to_lowercase(q) = to_lowercase(name(committees(config)[i]))
        \/ to_lowercase(q) = to_lowercase(RoleName(role_id(committees(config)[i])))}

\* C12: a `join` in the configured guild whose text equals, ignoring letter
\* case, the configured name or the role name of some committee resolves to
\* the first such committee in configured order, whatever the casing of the
\* text and of the configured name; the unknown-committee reply is sent only
\* when no committee is named so.
C12_CaseInsensitive ==
    \A j \in Joins :
        ( /\ jpc[j] \notin {"idle", "guild_check", "find_committee"}
          /\ msg_guild_id[j] = guild_id(config) )
        => IF NamedIgnoringCase(query[j]) = {}
           THEN jcommittee[j] = 0
           ELSE /\ jcommittee[j] \in NamedIgnoringCase(query[j])
                /\ \A i \in NamedIgnoringCase(query[j]) : jcommittee[j] <= i
                /\ \A i \in DOMAIN jlog[j] :
                      jlog[j][i].text # "Sorry, I couldn't find a committee by that name."

\* The tokens that notify someone when a message containing them is sent.
Pinging == {"@everyone", "@here", "<@77>"}

\* The text of the command after its recipient argument, as typed.
RawPayload(w) ==
    IF args[w] # <<>> /\ args[w][1] \in {"<@77>", "77"} THEN Tail(args[w]) ELSE args[w]

\* quote is raw with every pinging token replaced by one that pings nobody.
SanitizedOf(quote, raw) ==
    /\ Len(quote) = Len(raw)
    /\ \A k \in DOMAIN raw :
          /\ quote[k] \notin Pinging
          /\ raw[k] \notin Pinging => quote[k] = raw[k]

\* C13: every message of a `forward` invocation that shows the payload (the
\* committee post, the DM to the recipient) quotes the same value, the raw
\* command text with its pinging tokens defused; the DM of an approved
\* request quotes exactly what the committee post quoted; and no message the
\* invocation sends, a relayed reply included, quotes a pinging token.
C13_SanitizedOnce ==
    \A w \in Workflows :
        /\ \A i \in DOMAIN log[w] :
              /\ \A k \in DOMAIN log[w][i].quote : log[w][i].quote[k] \notin Pinging
              /\ (IsCommitteePost(log[w][i]) \/ IsDm(log[w][i])) =>
                    /\ SanitizedOf(log[w][i].quote, RawPayload(w))
                    /\ log[w][i].quote = cleaned_content[w]
        /\ \A i, k \in DOMAIN log[w] :
              (IsCommitteePost(log[w][i]) /\ IsDm(log[w][k])) =>
                 log[w][k].quote = log[w][i].quote

\* An approved request whose payload contains @everyone was delivered, and a
\* reply containing @here was relayed.
C13_Witness ==
    \E w \in Workflows :
        /\ "@everyone" \in {RawPayload(w)[k] : k \in DOMAIN RawPayload(w)}
        /\ \E i \in DOMAIN log[w] : IsDm(log[w][i]) /\ log[w][i].ok
        /\ \E i \in DOMAIN log[w] :
              IsRelay(log[w][i]) /\ log[w][i].ok /\ Len(log[w][i].quote) = 2

\* Once invocation w has returned nothing of it moves: it issues no call and
\* no event enters a collector of it.
C14_Quiet(w) ==
    pc[w] = "returned" =>
        /\ pc'[w] = "returned"
        /\ result'[w] = result[w]
        /\ log'[w] = log[w]
        /\ reaction_rx'[w] = reaction_rx[w]
        /\ replies_rx'[w] = replies_rx[w]
        /\ arrived'[w] = arrived[w]

\* The vote wait ends with the first collected reaction or, when none was
\* collected, with the timeout; the reply subscription ends by its timeout
\* with the handler returning Ok and no call issued.
C14_Ends(w) ==
    /\ (pc[w] = "reaction_wait" /\ pc'[w] # "reaction_wait") =>
          IF reaction_rx[w] = <<>>
          THEN vote'[w] = "timeout"
          ELSE vote'[w] = Head(reaction_rx[w]).emoji
    /\ (pc[w] = "replies_next" /\ pc'[w] = "returned") =>
          /\ result'[w] = "Ok"
          /\ log'[w] = log[w]

\* C14: given that a handler is resumed whenever what it awaits is ready and
\* that timeouts fire, every `forward` invocation returns, whatever reactions
\* and replies arrive and whenever; its vote wait ends at the first reaction
\* or at its timeout, its reply subscription at the timeout without any
\* further call or notification, and after the return nothing of the
\* invocation changes: it holds no listener.
C14_Terminates ==
    /\ \A w \in Workflows : Running(w) ~> (pc[w] = "returned")
    /\ [][\A w \in Workflows : C14_Quiet(w) /\ C14_Ends(w)]_vars

\* A vote ended by its timeout although a user had reacted, a reply was
\* relayed, the reply window closed and the handler returned.
C14_Witness ==
    \E w \in Workflows :
        /\ result[w] = "Ok"
        /\ vote[w] = "timeout"
        /\ nreact > 0
        /\ arrived[w] # <<>>
        /\ IsSent(log[w][Len(log[w])])

\* In a handler's log a failed call is the last one, and the handler has
\* returned the failure.
StopsAtFailure(calls, at, res) ==
    /\ \A i \in DOMAIN calls : ~calls[i].ok => i = Len(calls)
    /\ (calls # <<>> /\ ~calls[Len(calls)].ok) => (at = "returned" /\ res = "Err")
    /\ res = "Err" => (calls # <<>> /\ ~calls[Len(calls)].ok)

\* C15: in every reachable state a failed platform call of a `forward` or a
\* `join` invocation is the last call that invocation has issued, and the
\* invocation has returned with a failure: no call follows a failed one, the
\* failed call is not issued again, and a handler fails only by a failed call.
C15_StopsAtFailure ==
    /\ \A w \in Workflows : StopsAtFailure(log[w], pc[w], result[w])
    /\ \A j \in Joins : StopsAtFailure(jlog[j], jpc[j], jresult[j])

\* The relay of a reply failed while a later reply was waiting: that reply
\* was not marked sent and the later one was not relayed.
C15_Witness ==
    \E w \in Workflows :
        /\ result[w] = "Err"
        /\ IsRelay(log[w][Len(log[w])])
        /\ replies_rx[w] # <<>>
        /\ Len(Sents(w)) = 0

IsConfirmation(c) ==
    /\ c.op = "reply"
    /\ c.text \in {"Your message has been forwarded for approval.",
                   "Your message has been forwarded."}

\* Every call of w satisfying later is preceded by one satisfying earlier.
Precedes(w, earlier(_), later(_)) ==
    \A i \in DOMAIN log[w] :
        later(log[w][i]) => \E k \in 1 .. (i - 1) : earlier(log[w][k])

\* C16: in the calls of one `forward` invocation the committee post and the
\* confirmation to the requester both come before the approve/reject
\* affordances are attached, the committee's and the requester's outcome
\* replies both come before the DM is opened and sent, and for an external
\* request no reply is relayed before the requester was told the outcome.
C16_StateOrder ==
    \A w \in Workflows :
        LET CommitteeOutcome(c) == IsCommitteeOutcome(w, c)
            RequesterOutcome(c) == IsRequesterOutcome(w, c)
            ExternalRelay(c) == IsRelay(c) /\ recipient_id[w] # 0
        IN /\ Precedes(w, IsCommitteePost, IsConfirmation)
           /\ Precedes(w, IsCommitteePost, IsAffordance)
           /\ Precedes(w, IsConfirmation, IsAffordance)
           /\ Precedes(w, CommitteeOutcome, RequesterOutcome)
           /\ Precedes(w, CommitteeOutcome, IsDmOpen)
           /\ Precedes(w, RequesterOutcome, IsDmOpen)
           /\ Precedes(w, IsDmOpen, IsDm)
           /\ Precedes(w, IsConfirmation, IsRelay)
           /\ Precedes(w, RequesterOutcome, ExternalRelay)

\* The collectors of w are as they were.
CollectorsUntouched(w) ==
    /\ reaction_rx'[w] = reaction_rx[w]
    /\ replies_rx'[w] = replies_rx[w]
    /\ arrived'[w] = arrived[w]

\* What the users and the gateway do to the collectors of the workflows:
\* a reaction on v's committee message reaches no other workflow; a message
\* in a committee channel reaches only the reply subscription of the
\* workflow whose committee message it replies to; an event of the bot
\* reaches only the workflow on whose committee message it happened.
C17_Isolated ==
    /\ \A v \in Workflows, e \in Emoji :
          UserReact(v, e) =>
             /\ \A w \in Workflows \ {v} : CollectorsUntouched(w)
             /\ replies_rx'[v] = replies_rx[v]
    /\ \A v \in Workflows : \A ref \in Refs(v) :
          UserSay(v, ref) =>
             \A w \in Workflows :
                (ref = 0 \/ ref # committee_msg[w]) => CollectorsUntouched(w)
    /\ Dispatch =>
          \A w \in Workflows :
             ( \/ committee_msg[w] = 0
               \/ Head(gateway).type = "reaction_add" /\ Head(gateway).id # committee_msg[w]
               \/ Head(gateway).type = "message" /\ Head(gateway).ref # committee_msg[w] )
             => CollectorsUntouched(w)

\* What a workflow did with what it collected: the reaction its vote waits
\* on is one on its own committee message, its relays and "sent" marks are
\* those of the replies its own subscription was handed, and they go to its
\* own requester's channel.
C17_Own(w) ==
    /\ \A k \in DOMAIN reaction_rx[w] : reaction_rx[w][k].id = CommitteeMessage(w)
    /\ \A k \in DOMAIN Relays(w) :
          /\ k <= Len(arrived[w])
          /\ Relays(w)[k].src = arrived[w][k].id
          /\ Relays(w)[k].chan = CommandChannel(w)
    /\ \A k \in DOMAIN Sents(w) :
          /\ k <= Len(arrived[w])
          /\ Sents(w)[k].msg = arrived[w][k].id
    /\ \A v \in Workflows \ {w} : \A k \in DOMAIN arrived[w], n \in DOMAIN arrived[v] :
          arrived[w][k].id # arrived[v][n].id

\* C17: with two `forward` invocations active together on the same committee
\* channel, under every interleaving, a reaction on one's committee message
\* never enters the other's vote, and a message that replies to one's
\* committee message, to another message or to nothing is never handed to,
\* relayed by or marked sent by the other.
C17_NoInterference ==
    /\ [](\A w \in Workflows : C17_Own(w))
    /\ [][C17_Isolated]_vars

\* Both invocations ran to their end on the same channel: a user's approve
\* decided the vote of the first and a user's reply to its committee message
\* was relayed by it, while the second, whose subscription was open, was
\* handed nothing although two messages were posted in the channel.
C17_Witness ==
    /\ result[1] = "Ok" /\ result[2] = "Ok"
    /\ channel_id(TheCommittee(1)) = channel_id(TheCommittee(2))
    /\ vote[1] = POSITIVE_REACTION
    /\ first_cast[1].emoji = POSITIVE_REACTION
    /\ nmsg = 2
    /\ \E k \in DOMAIN arrived[1] : arrived[1][k].author = VoterId
    /\ arrived[2] = <<>>

\* C18: the reaction a vote accepts is never one the bot added itself;
\* a request is approved, and its DM sent, only when a user added a
\* reaction to its committee message.
C18_BotNeverVotes ==
    \A w \in Workflows :
        /\ \A k \in DOMAIN reaction_rx[w] : reaction_rx[w][k].author # BotId
        /\ vote[w] \in Emoji => first_cast[w].emoji # ""
        /\ (\E i \in DOMAIN log[w] : IsDm(log[w][i])) => first_cast[w].emoji # ""

\* C19: no message the bot posted itself, its outcome reply on the committee
\* message in particular, is handed to the reply subscription, relayed to
\* the requester or marked "sent": the replies relayed are those of users.
C19_BotReplyNotRelayed ==
    \A w \in Workflows :
        /\ \A k \in DOMAIN arrived[w] : arrived[w][k].author # BotId
        /\ \A i \in DOMAIN log[w] :
              /\ IsRelay(log[w][i]) =>
                    /\ log[w][i].mentions # <<BotId>>
                    /\ log[w][i].src # OutcomeMessage(w)
              /\ IsSent(log[w][i]) => log[w][i].msg # OutcomeMessage(w)

\* Join j has not been issued, or it resolved a committee and completed.
Completed(j) == jpc[j] = "idle" \/ (jresult[j] = "Ok" /\ jcommittee[j] # 0)

\* Join j completes successfully in this step, as the last of the joins
\* issued so far (every other one has completed or was never issued).
CompletesLast(j) ==
    /\ jresult[j] = "running"
    /\ jresult'[j] = "Ok"
    /\ jcommittee[j] # 0
    /\ \A k \in Joins \ {j} : Completed(k)

\* C20: for a member who starts with at most one committee role, whenever
\* all the `join` commands issued so far have completed successfully, in any
\* interleaving of their steps, the member holds at most one configured
\* committee role; and when a join completes last, the committee role the
\* member holds is that of its committee.
C20_AtMostOneRole ==
    /\ []( (\A j \in Joins : Completed(j))
              => Cardinality(roles \cap committee_role_ids(config)) <= 1 )
    /\ [][\A j \in Joins :
             CompletesLast(j) =>
                roles' \cap committee_role_ids(config)
                   = {role_id(committees(config)[jcommittee[j]])}]_vars
====
